---- MODULE Spec2Model ----
(***************************************************************************)
(* College basketball shot charts (map_app_2.py): the derivation logic of  *)
(* the Flask application over its two base tables, the play-by-play table  *)
(* pbp_df and the box-score table box_df, as a state machine: load_data,   *)
(* then one action per query function or endpoint, whose result is kept in *)
(* resp until it has been sent.                                            *)
(*                                                                         *)
(* Representation.  A DataFrame is a sequence of records (rows, in index   *)
(* order).  A Python str is a sequence of one-character strings.  An       *)
(* absent numeric value is NaN, an absent string is NaNStr.  A date is the *)
(* integer yyyymmdd.                                                       *)
(***************************************************************************)
EXTENDS Integers, Sequences, FiniteSets, TLC

VARIABLES
    pbp_df,     \* play-by-play table (meaningful once loaded)
    box_df,     \* box-score table (meaningful once loaded)
    all_teams,  \* team directory built by load_data
    loaded,     \* FALSE while the three globals are still None
    serving,    \* whether the application object is being served
    failed,     \* whether load_data raised (the interpreter has exited)
    figures,    \* the matplotlib Figure objects created so far
    Gcf,        \* pyplot's figure registry: indices into figures, the
                \* current figure last
    threads,    \* the chart requests being handled, one per worker thread
    resp        \* the call being answered: [op |-> "none"] when idle

vars ==
    <<pbp_df, box_df, all_teams, loaded, serving, failed, figures, Gcf,
      threads, resp>>

----------------------------------------------------------------------------
(* Worker threads of the server (app.run serves each request in a thread) *)

NThreads == 2
Threads == 1..NThreads

----------------------------------------------------------------------------
(* Absent values *)

NaN == -1
NaNStr == <<"NaN">>

\* Numbers keep their dtype: an int64 identifier n is n, the float64 of the
\* same number is n + FloatBase (identifiers are below FloatBase); NaN is a
\* float.
FloatBase == 1000
Float64(v) == IF v = NaN \/ v >= FloatBase THEN v ELSE v + FloatBase

(* pd.notna on a numeric cell *)
notna(v) == v # NaN

(* column == value on a string column: an absent cell equals nothing, *)
(* itself included                                                    *)
StrEq(cell, value) == cell # NaNStr /\ cell = value

----------------------------------------------------------------------------
(* Characters and strings *)

\* The characters in use, in code-point order.
Chars ==
    <<" ", "(", ")", "-", ".", "/",
      "0", "1", "2", "3", "4", "5", "6", "7", "8", "9", "@",
      "A", "B", "C", "D", "E", "F", "G", "H", "I", "J", "K", "L", "M",
      "N", "O", "P", "Q", "R", "S", "T", "U", "V", "W", "X", "Y", "Z",
      "a", "b", "c", "d", "e", "f", "g", "h", "i", "j", "k", "l", "m",
      "n", "o", "p", "q", "r", "s", "t", "u", "v", "w", "x", "y", "z">>

\* The rank of each character.
OrdTable ==
    [c \in {Chars[i] : i \in 1..Len(Chars)} |->
        CHOOSE i \in 1..Len(Chars) : Chars[i] = c]

Ord(c) == OrdTable[c]

IsUpper(c) == Ord(c) >= Ord("A") /\ Ord(c) <= Ord("Z")

\* str.lower on each character.
LowerTable ==
    [c \in {Chars[i] : i \in 1..Len(Chars)} |->
        IF IsUpper(c) THEN Chars[Ord(c) - Ord("A") + Ord("a")] ELSE c]

\* str.lower, one character
LowerChar(c) == LowerTable[c]

\* str.lower
Lower(s) == [i \in 1..Len(s) |-> LowerChar(s[i])]

\* The decimal digits of a natural number, as str(int) writes them.
RECURSIVE Digits(_)
Digits(n) ==
    IF n < 10 THEN <<Chars[Ord("0") + n]>>
    ELSE Digits(n \div 10) \o <<Chars[Ord("0") + (n % 10)]>>

\* A number written on at least two digits (%m, %d).
Pad2(n) == IF n < 10 THEN <<"0">> \o Digits(n) ELSE Digits(n)

\* `part in s` for Python strings: s holds part as a contiguous run.
IsSubstring(part, s) ==
    \E k \in 0..(Len(s) - Len(part)) :
        \A i \in 1..Len(part) : s[k + i] = part[i]

\* a < b for Python strings: lexicographic by code point.
RECURSIVE StrLess(_, _)
StrLess(a, b) ==
    IF b = <<>> THEN FALSE
    ELSE IF a = <<>> THEN TRUE
    ELSE IF Ord(Head(a)) # Ord(Head(b)) THEN Ord(Head(a)) < Ord(Head(b))
    ELSE StrLess(Tail(a), Tail(b))

\* pd.to_datetime(d).strftime('%m/%d/%Y')
FormatDate(d) ==
    Pad2((d \div 100) % 100) \o <<"/">> \o Pad2(d % 100) \o <<"/">>
        \o Digits(d \div 10000)

----------------------------------------------------------------------------
(* Generic sequence helpers *)

Range(s) == {s[i] : i \in 1..Len(s)}

\* All sequences over S of length at most n.
SeqsUpTo(S, n) == UNION {[1..k -> S] : k \in 0..n}

\* The elements of a finite set of integers in ascending order.
RECURSIVE SortedSeq(_)
SortedSeq(S) ==
    IF S = {} THEN <<>>
    ELSE LET m == CHOOSE x \in S : \A y \in S : x <= y
         IN <<m>> \o SortedSeq(S \ {m})

\* The elements of a finite set of strings in ascending order (sorted()).
RECURSIVE SortedStrs(_)
SortedStrs(S) ==
    IF S = {} THEN <<>>
    ELSE LET m == CHOOSE x \in S : \A y \in S : ~StrLess(y, x)
         IN <<m>> \o SortedStrs(S \ {m})

\* Series.unique() / drop_duplicates: first occurrences, in order.
RECURSIVE Unique(_)
Unique(s) ==
    IF s = <<>> THEN <<>>
    ELSE LET init == Unique(SubSeq(s, 1, Len(s) - 1))
             x == s[Len(s)]
         IN IF x \in Range(init) THEN init ELSE Append(init, x)

\* pd.concat(frames, ignore_index=True): the rows of the frames in order.
RECURSIVE Concat(_)
Concat(frames) ==
    IF frames = <<>> THEN <<>> ELSE Head(frames) \o Concat(Tail(frames))

\* The tables made of at most n rows of a reference table, in its order.
SubTables(table, n) ==
    {[i \in 1..Cardinality(S) |-> table[SortedSeq(S)[i]]] :
        S \in {T \in SUBSET (1..Len(table)) : Cardinality(T) <= n}}

\* The permutations of 1..n, as index sequences.
IndexPerms(n) == {p \in [1..n -> 1..n] : \A i, j \in 1..n : i # j => p[i] # p[j]}

----------------------------------------------------------------------------
(* Names *)

Duke == <<"D", "u", "k", "e">>
DukeUpper == <<"D", "U", "K", "E">>
Kansas == <<"K", "a", "n", "s", "a", "s">>
Siena == <<"S", "i", "e", "n", "a">>

CameronBoozer ==
    <<"C", "a", "m", "e", "r", "o", "n", " ", "B", "o", "o", "z", "e", "r">>
CameronTBoozer ==
    <<"C", "a", "m", "e", "r", "o", "n", " ", "T", ".", " ",
      "B", "o", "o", "z", "e", "r">>
CamBoozer == <<"C", "a", "m", " ", "B", "o", "o", "z", "e", "r">>
TeamView == <<"T", "e", "a", "m", " ", "V", "i", "e", "w">>

JumpShot == <<"J", "u", "m", "p", "S", "h", "o", "t">>
MadeFreeThrow ==
    <<"M", "a", "d", "e", "F", "r", "e", "e", "T", "h", "r", "o", "w">>
LowerFreethrow == <<"f", "r", "e", "e", "t", "h", "r", "o", "w">>
Rebound == <<"R", "e", "b", "o", "u", "n", "d">>
FreeThrowPattern == <<"F", "r", "e", "e", "T", "h", "r", "o", "w">>

\* The provider's display name of each team identifier in the pools.
TeamName(id) == CASE id = 1 -> Duke [] id = 2 -> Kansas [] OTHER -> Siena

\* CONFERENCE_MAP restricted to the names of the pools; a name that is no
\* key maps to NaNStr (Series.map gives NaN).
CONFERENCE_MAP(name) ==
    CASE name = Duke -> <<"A", "C", "C">>
      [] name = Kansas -> <<"B", "i", "g", " ", "1", "2">>
      [] OTHER -> NaNStr

Other == <<"O", "t", "h", "e", "r">>

----------------------------------------------------------------------------
(* Rows of the two base tables *)

PbpRow(g, d, h, a, hs, as, ath, t, tt, sh, sc) ==
    [game_id |-> g, game_date |-> d,
     home_team_id |-> h, home_team_name |-> TeamName(h),
     away_team_id |-> a, away_team_name |-> TeamName(a),
     home_score |-> hs, away_score |-> as,
     athlete_id_1 |-> ath, team_id |-> t, type_text |-> tt,
     shooting_play |-> sh, scoring_play |-> sc]

BoxRow(g, ath, name, t) ==
    [game_id |-> g, athlete_id |-> ath, athlete_display_name |-> name,
     team_id |-> t, team_display_name |-> TeamName(t)]

----------------------------------------------------------------------------
(* Bounds and input pools *)

MaxGameRows == 2

\* Two game dates, one in each calendar year of the season.
GameDates == <<20251127, 20260105>>
Date1 == GameDates[1]
Date2 == GameDates[2]

ScoreVals == {NaN, 71, 80}

\* A play that is no shot, as the rows of a game mostly are.
GameRow(g, d, h, a, hs, as) ==
    PbpRow(g, d, h, a, hs, as, NaN, h, Rebound, FALSE, FALSE)

\* Play-by-play rows for the game listing: every game / pairing / date under
\* one final score, and every pair of (possibly absent) running scores for
\* one game.
GamesPool ==
    {GameRow(g, d, m[1], m[2], 80, 71) :
        g \in {1, 2}, d \in {Date1, Date2}, m \in {<<1, 2>>, <<2, 1>>, <<2, 3>>}}
    \cup {GameRow(1, Date1, 1, 2, hs, as) : hs \in ScoreVals, as \in ScoreVals}

MaxTeamRows == 2

\* (identifier, display name) pairs as the provider may give them: Duke
\* under two spellings, one of them no key of CONFERENCE_MAP, a team in no
\* conference of the map, and pairs with an absent half.
TeamIdNames ==
    {<<1, Duke>>, <<1, DukeUpper>>, <<2, Kansas>>, <<3, Siena>>,
     <<NaN, Siena>>, <<2, NaNStr>>}

\* Play-by-play rows for the team directory: every home / away pairing of
\* two pairs with different identifiers.
TeamsPool ==
    {[GameRow(1, Date1, m[1][1], m[2][1], 80, 71)
          EXCEPT !.home_team_name = m[1][2], !.away_team_name = m[2][2]] :
        m \in {x \in TeamIdNames \X TeamIdNames : x[1][1] # x[2][1]}}

\* Team identifiers a request may name (3 is in no row of many tables).
QueryTeams == {1, 2, 3}

MaxShotRows == 3
MaxBoxRows == 3

\* The game-level columns of a play-by-play row are those of its game:
\* game 1 is Duke (home) 80-71 Kansas; game 2 is Kansas (home) against Duke,
\* with only Duke's running score recorded; game 3 is Duke (home) 71-71
\* Kansas, in the new year.
ShotRow(g, t, ath, tt, sh, sc) ==
    IF g = 1 THEN PbpRow(1, Date1, 1, 2, 80, 71, ath, t, tt, sh, sc)
    ELSE IF g = 3 THEN PbpRow(3, Date2, 1, 2, 71, 71, ath, t, tt, sh, sc)
    ELSE PbpRow(g, Date2, 2, 1, NaN, 71, ath, t, tt, sh, sc)

\* A reference play-by-play table for the shot queries: field goals made and
\* missed by athlete 1, a field goal by athlete 2, a shot with neither
\* shooter nor label, free throws in two spellings, a play that is no shot,
\* the other team's shot, and two shots in the other game.
ShotPool ==
    <<ShotRow(1, 1, 1, JumpShot, TRUE, TRUE),
      ShotRow(1, 1, 1, JumpShot, TRUE, FALSE),
      ShotRow(1, 1, 2, JumpShot, TRUE, TRUE),
      ShotRow(1, 1, NaN, NaNStr, TRUE, FALSE),
      ShotRow(1, 1, 1, MadeFreeThrow, TRUE, TRUE),
      ShotRow(1, 1, 1, LowerFreethrow, TRUE, FALSE),
      ShotRow(1, 1, 1, Rebound, FALSE, FALSE),
      ShotRow(1, 2, 2, JumpShot, TRUE, TRUE),
      ShotRow(2, 1, 1, JumpShot, TRUE, TRUE),
      ShotRow(2, 1, 1, JumpShot, TRUE, FALSE)>>

\* A reference box-score table: athlete 1 for Duke in game 1 under two
\* spellings of the name, athlete 2 on either roster of game 1, an athlete
\* without a name, and athlete 1 for Duke in game 2.
BoxPool ==
    <<BoxRow(1, 1, CameronBoozer, 1),
      BoxRow(1, 1, CameronTBoozer, 1),
      BoxRow(1, 2, CamBoozer, 1),
      BoxRow(1, 2, CamBoozer, 2),
      BoxRow(1, 3, NaNStr, 1),
      BoxRow(2, 1, CameronBoozer, 1)>>

MaxChartRows == 2

\* The tables of the concurrent chart requests: field goals of game 1 by two
\* athletes of Duke, and their box-score rows.
ChartShotPool == SubSeq(ShotPool, 1, 3)
ChartBoxPool == <<BoxPool[1], BoxPool[3]>>

\* Tables for the join of names: plays of two athletes of the box score,
\* of an acting player in no box-score row, and without an acting player.
\* An identifier column is stored whole as int64 or whole as float64.
JoinShotPool ==
    <<ShotRow(1, 1, 1, JumpShot, TRUE, TRUE),
      ShotRow(1, 1, 2, JumpShot, TRUE, TRUE),
      ShotRow(1, 1, 3, JumpShot, TRUE, FALSE),
      ShotRow(1, 1, NaN, JumpShot, TRUE, FALSE)>>
JoinBoxPool ==
    <<BoxRow(1, 1, CameronBoozer, 1),
      BoxRow(1, 2, CamBoozer, 1),
      BoxRow(2, 1, CameronBoozer, 1)>>
Dtypes == {"int64", "float64"}
PbpAs(pbp, dtype) ==
    IF dtype = "int64" THEN pbp
    ELSE [i \in 1..Len(pbp) |->
             [pbp[i] EXCEPT !.athlete_id_1 = Float64(@)]]
BoxAs(box, dtype) ==
    IF dtype = "int64" THEN box
    ELSE [i \in 1..Len(box) |-> [box[i] EXCEPT !.athlete_id = Float64(@)]]

\* Tables for the per-player game listing: a player of each team with a
\* shot in the game of November and in the tied game of January.
PlayerGamesShotPool ==
    <<ShotRow(1, 1, 1, JumpShot, TRUE, TRUE),
      ShotRow(1, 2, 2, JumpShot, TRUE, FALSE),
      ShotRow(3, 1, 1, JumpShot, TRUE, FALSE),
      ShotRow(3, 2, 2, JumpShot, TRUE, TRUE)>>
PlayerGamesBoxPool ==
    <<BoxRow(1, 1, CameronBoozer, 1),
      BoxRow(1, 2, CamBoozer, 2),
      BoxRow(3, 1, CameronBoozer, 1),
      BoxRow(3, 2, CamBoozer, 2)>>

ShotQueryGames == {1, 2}
ShotQueryTeams == {1, 2}
QueryPlayers == {CameronBoozer, CamBoozer, TeamView}

\* Search queries: the two orders of "cameron boozer", a query with upper
\* case and extra blanks, a token with a dot, a query of blanks only, and
\* the spelling of an absent name.
QueryCameronBoozer ==
    <<"c", "a", "m", "e", "r", "o", "n", " ", "b", "o", "o", "z", "e", "r">>
QueryBoozerCameron ==
    <<"b", "o", "o", "z", "e", "r", " ", "c", "a", "m", "e", "r", "o", "n">>
QueryBoozerCam ==
    <<" ", "B", "o", "o", "z", "e", "r", " ", " ", "C", "A", "M", " ">>
QueryTDot == <<"t", ".", " ", "c", "a", "m">>
QueryBlank == <<" ", " ">>
QueryNan == <<"n", "a", "n">>

SearchQueries ==
    {QueryCameronBoozer, QueryBoozerCameron, QueryBoozerCam, QueryTDot,
     QueryBlank, QueryNan}

----------------------------------------------------------------------------
(* DataFrame.sort_values: ascending, absent keys last.  The default sort    *)
(* kind is not stable, so rows with equal keys may come out in any order:  *)
(* the operator gives every outcome.                                       *)

\* Whether a column holds strings (object dtype) or numbers.
StrColumns ==
    {"home_team_name", "away_team_name", "team_name", "type_text",
     "athlete_display_name", "team_display_name"}

NullOf(col) == IF col \in StrColumns THEN NaNStr ELSE NaN

\* a < b for two present values of a column.
ColLess(col, a, b) == IF col \in StrColumns THEN StrLess(a, b) ELSE a < b

SortValues(df, col) ==
    LET Before(x, y) ==
            /\ x[col] # NullOf(col)
            /\ (y[col] = NullOf(col) \/ ColLess(col, x[col], y[col]))
    IN {[i \in 1..Len(df) |-> df[p[i]]] :
            p \in {q \in IndexPerms(Len(df)) :
                      \A i, j \in 1..Len(df) :
                          i < j => ~Before(df[q[j]], df[q[i]])}}

----------------------------------------------------------------------------
(* load_data *)

TeamPairs(pbp) ==
    [i \in 1..Len(pbp) |->
        [team_id |-> pbp[i].home_team_id, team_name |-> pbp[i].home_team_name]]
    \o
    [i \in 1..Len(pbp) |->
        [team_id |-> pbp[i].away_team_id, team_name |-> pbp[i].away_team_name]]

\* Mutant: the absent conferences are not filled with "Other".
TeamsUnsortedNoFill(pbp) ==
    LET kept == SelectSeq(Unique(TeamPairs(pbp)),
                    LAMBDA r : r.team_id # NaN /\ r.team_name # NaNStr)
    IN [i \in 1..Len(kept) |->
           [team_id |-> kept[i].team_id, team_name |-> kept[i].team_name,
            conference |-> CONFERENCE_MAP(kept[i].team_name)]]

\* pd.concat([home, away]).drop_duplicates().dropna(), then the conference
\* column: CONFERENCE_MAP, absent filled with "Other".
TeamsUnsorted(pbp) ==
    LET kept == SelectSeq(Unique(TeamPairs(pbp)),
                    LAMBDA r : r.team_id # NaN /\ r.team_name # NaNStr)
        Conf(name) == IF CONFERENCE_MAP(name) = NaNStr THEN Other
                      ELSE CONFERENCE_MAP(name)
    IN [i \in 1..Len(kept) |->
           [team_id |-> kept[i].team_id, team_name |-> kept[i].team_name,
            conference |-> Conf(kept[i].team_name)]]

\* The outcomes of load_data for the tables the provider returns.  It is
\* called by the __main__ block only, which then serves the application.
load_data(pbp, box) ==
    /\ ~loaded
    /\ pbp_df' = pbp
    /\ box_df' = box
    /\ all_teams' \in SortValues(TeamsUnsorted(pbp), "team_name")
    /\ loaded' = TRUE
    /\ UNCHANGED <<resp, failed, figures, Gcf, threads>>

\* The points of load_data where the provider or the schema can fail: the
\* play-by-play download, the box-score download, the team columns.
LoadStages == {"pbp", "box", "teams"}

\* Mutant: the __main__ block catches the exception and still calls app.run.
load_data_fails_caught(pbp, box, stage) ==
    /\ ~loaded
    /\ ~failed
    /\ pbp_df' = IF stage = "pbp" THEN pbp_df ELSE pbp
    /\ box_df' = IF stage = "teams" THEN box ELSE box_df
    /\ failed' = TRUE
    /\ serving' = TRUE
    /\ UNCHANGED <<all_teams, loaded, figures, Gcf, threads, resp>>

\* load_data raises at a stage: the globals assigned before it keep their
\* tables, the exception leaves the __main__ block before app.run and the
\* interpreter exits.
load_data_fails(pbp, box, stage) ==
    /\ ~loaded
    /\ ~failed
    /\ pbp_df' = IF stage = "pbp" THEN pbp_df ELSE pbp
    /\ box_df' = IF stage = "teams" THEN box ELSE box_df
    /\ failed' = TRUE
    /\ UNCHANGED <<all_teams, loaded, serving, figures, Gcf, threads, resp>>

----------------------------------------------------------------------------
(* get_teams: /api/teams *)

\* all_teams.to_dict('records'): one dictionary per row, in row order.
ToRecords(df) ==
    [i \in 1..Len(df) |->
        [team_id |-> df[i].team_id, team_name |-> df[i].team_name,
         conference |-> df[i].conference]]

get_teams ==
    /\ loaded
    /\ resp.op = "none"
    /\ resp' = [op |-> "get_teams", status |-> 200,
                body |-> ToRecords(all_teams)]
    /\ UNCHANGED <<pbp_df, box_df, all_teams, loaded, serving, failed,
                 figures, Gcf, threads>>

----------------------------------------------------------------------------
(* get_team_games *)

GameInfoColumns ==
    {"game_date", "home_team_name", "away_team_name", "home_score",
     "away_score", "home_team_id", "away_team_id"}

\* GroupBy.last() on one column: the last value that is not absent.
RECURSIVE LastValid(_, _)
LastValid(rows, col) ==
    IF rows = <<>> THEN NullOf(col)
    ELSE IF rows[Len(rows)][col] # NullOf(col) THEN rows[Len(rows)][col]
    ELSE LastValid(SubSeq(rows, 1, Len(rows) - 1), col)

\* Mutant: the team filter is left out.
TeamGamesRowsUnfiltered(team_id) == pbp_df

\* pbp_df[(home_team_id == team_id) | (away_team_id == team_id)]
TeamGamesRows(team_id) ==
    SelectSeq(pbp_df,
        LAMBDA r : r.home_team_id = team_id \/ r.away_team_id = team_id)

\* team_games.groupby('game_id').last()[columns].reset_index(): one row per
\* game identifier, in ascending identifier order.
GroupLast(team_games) ==
    LET ids == SortedSeq({r.game_id : r \in Range(team_games)} \ {NaN})
        Group(g) == SelectSeq(team_games, LAMBDA r : r.game_id = g)
    IN [i \in 1..Len(ids) |->
           [col \in GameInfoColumns \cup {"game_id"} |->
               IF col = "game_id" THEN ids[i]
               ELSE LastValid(Group(ids[i]), col)]]

\* Mutant: the sort by date is left out.
SortByGameDateOmitted(game_info) == {game_info}

SortByGameDate(game_info) == SortValues(game_info, "game_date")

\* The outcomes of get_team_games(team_id).
GetTeamGames(team_id) == SortByGameDate(GroupLast(TeamGamesRows(team_id)))

get_team_games(team_id) ==
    /\ loaded
    /\ resp.op = "none"
    /\ \E game_info \in GetTeamGames(team_id) :
          resp' = [op |-> "get_team_games", team_id |-> team_id,
                   status |-> 200, game_info |-> game_info]
    /\ UNCHANGED <<pbp_df, box_df, all_teams, loaded, serving, failed,
                 figures, Gcf, threads>>

----------------------------------------------------------------------------
(* get_games: /api/games/<team_id> *)

Vs == <<"v", "s">>
At == <<"@">>
TBD == <<"T", "B", "D">>

\* Mutant: the away branch keeps the scores of the home branch.
PerspectiveScoresNotSwapped(row, team_id) ==
    IF row.home_team_id = team_id
    THEN [opponent |-> row.away_team_name, location |-> Vs,
          team_score |-> row.home_score, opp_score |-> row.away_score]
    ELSE [opponent |-> row.home_team_name, location |-> At,
          team_score |-> row.home_score, opp_score |-> row.away_score]

\* The home/away perspective of a game row for the requested team.
Perspective(row, team_id) ==
    IF row.home_team_id = team_id
    THEN [opponent |-> row.away_team_name, location |-> Vs,
          team_score |-> row.home_score, opp_score |-> row.away_score]
    ELSE [opponent |-> row.home_team_name, location |-> At,
          team_score |-> row.away_score, opp_score |-> row.home_score]

\* Mutant: the comparison is >= instead of >.
ScoreTextGe(team_score, opp_score) ==
    (IF team_score >= opp_score THEN <<"W">> ELSE <<"L">>)
        \o <<" ">> \o Digits(team_score) \o <<"-">> \o Digits(opp_score)

\* f"{result} {int(team_score)}-{int(opp_score)}"
ScoreText(team_score, opp_score) ==
    (IF team_score > opp_score THEN <<"W">> ELSE <<"L">>)
        \o <<" ">> \o Digits(team_score) \o <<"-">> \o Digits(opp_score)

\* The score string of get_games.
GamesScoreStr(team_score, opp_score) ==
    IF notna(team_score) /\ notna(opp_score)
    THEN ScoreText(team_score, opp_score)
    ELSE TBD

GamesEntry(row, team_id) ==
    LET v == Perspective(row, team_id)
    IN [game_id |-> row.game_id,
        date |-> FormatDate(row.game_date),
        opponent |-> v.opponent,
        location |-> v.location,
        score |-> GamesScoreStr(v.team_score, v.opp_score)]

GamesList(game_info, team_id) ==
    [i \in 1..Len(game_info) |-> GamesEntry(game_info[i], team_id)]

get_games(team_id) ==
    /\ loaded
    /\ resp.op = "none"
    /\ \E game_info \in GetTeamGames(team_id) :
          resp' = [op |-> "get_games", team_id |-> team_id, status |-> 200,
                   game_info |-> game_info,
                   body |-> GamesList(game_info, team_id)]
    /\ UNCHANGED <<pbp_df, box_df, all_teams, loaded, serving, failed,
                 figures, Gcf, threads>>

----------------------------------------------------------------------------
(* get_player_shots *)

\* The (athlete_id, athlete_display_name) pairs of box-score rows, without
\* duplicates.
NamePairs(rows) ==
    Unique([i \in 1..Len(rows) |->
               [athlete_id |-> rows[i].athlete_id,
                athlete_display_name |-> rows[i].athlete_display_name]])

\* astype(float) on an identifier: the same number as a float.
AsFloat(v) == Float64(v)

\* One play-by-play row with the two columns the merge adds.
WithName(r, id, name) ==
    [col \in DOMAIN r \cup {"athlete_id", "athlete_display_name"} |->
        CASE col = "athlete_id" -> id
          [] col = "athlete_display_name" -> name
          [] OTHER -> r[col]]

\* Mutant: the keys are compared as they are stored (1 and 1.0 differ).
MergeLeftAsStored(left, names) ==
    LET Row(i) ==
            LET r == left[i]
                hits == SelectSeq(names,
                            LAMBDA n : n.athlete_id = r.athlete_id_1)
            IN IF hits = <<>> THEN <<WithName(r, NaN, NaNStr)>>
               ELSE [k \in 1..Len(hits) |->
                        WithName(r, hits[k].athlete_id,
                                 hits[k].athlete_display_name)]
    IN Concat([i \in 1..Len(left) |-> Row(i)])

\* game_shots.merge(names, left_on='athlete_id_1', right_on='athlete_id',
\* how='left'): every left row once per matching right row, in left order,
\* and once with absent names when nothing matches.  The right key is the
\* float64 column made by astype; an int64 left key is compared as float64.
RECURSIVE MergeLeft(_, _)
MergeLeft(left, names) ==
    IF left = <<>> THEN <<>>
    ELSE LET r == Head(left)
             hits == SelectSeq(names,
                         LAMBDA n : AsFloat(n.athlete_id)
                                        = Float64(r.athlete_id_1))
             out == IF hits = <<>> THEN <<WithName(r, NaN, NaNStr)>>
                    ELSE [k \in 1..Len(hits) |->
                             WithName(r, AsFloat(hits[k].athlete_id),
                                      hits[k].athlete_display_name)]
         IN out \o MergeLeft(Tail(left), names)

\* Series.str.contains(pat, case=False, na=False)
StrContains(s, pat) ==
    IF s = NaNStr THEN FALSE
    ELSE LET lp == Lower(pat)
             ls == Lower(s)
         IN IsSubstring(lp, ls)

\* Mutant: the match is case-sensitive.
IsFieldGoalCaseSensitive(r, team_id) ==
    /\ r.team_id = team_id
    /\ r.shooting_play = TRUE
    /\ ~(r.type_text # NaNStr /\ IsSubstring(FreeThrowPattern, r.type_text))

\* The mask of team_shots.
IsFieldGoal(r, team_id) ==
    /\ r.team_id = team_id
    /\ r.shooting_play = TRUE
    /\ ~StrContains(r.type_text, FreeThrowPattern)

GameBox(game_id) == SelectSeq(box_df, LAMBDA r : r.game_id = game_id)

\* team_shots: the first value get_player_shots returns.
TeamShots(game_id, team_id) ==
    LET names == NamePairs(GameBox(game_id))
        game_shots == MergeLeft(
            SelectSeq(pbp_df, LAMBDA r : r.game_id = game_id), names)
    IN SelectSeq(game_shots, LAMBDA r : IsFieldGoal(r, team_id))

\* team_players: the second value get_player_shots returns.
TeamPlayers(game_id, team_id) ==
    NamePairs(SelectSeq(GameBox(game_id), LAMBDA r : r.team_id = team_id))

\* Mutant: the filtered box score is stored back in the global.
get_player_shots_global(game_id, team_id) ==
    /\ loaded
    /\ resp.op = "none"
    /\ resp' = [op |-> "get_player_shots", game_id |-> game_id,
                team_id |-> team_id, status |-> 200,
                team_shots |-> TeamShots(game_id, team_id),
                team_players |-> TeamPlayers(game_id, team_id)]
    /\ box_df' = GameBox(game_id)
    /\ UNCHANGED <<pbp_df, all_teams, loaded, serving, failed, figures, Gcf,
                   threads>>

get_player_shots(game_id, team_id) ==
    /\ loaded
    /\ resp.op = "none"
    /\ resp' = [op |-> "get_player_shots", game_id |-> game_id,
                team_id |-> team_id, status |-> 200,
                team_shots |-> TeamShots(game_id, team_id),
                team_players |-> TeamPlayers(game_id, team_id)]
    /\ UNCHANGED <<pbp_df, box_df, all_teams, loaded, serving, failed,
                 figures, Gcf, threads>>

----------------------------------------------------------------------------
(* Counts and percentages *)

\* df[df['athlete_display_name'] == player]
ShotsOf(shots, player) ==
    SelectSeq(shots, LAMBDA r : StrEq(r.athlete_display_name, player))

\* len(df[df['scoring_play'] == True])
Makes(shots) == Len(SelectSeq(shots, LAMBDA r : r.scoring_play = TRUE))

\* A percentage is kept as the exact quotient num/den; Python's 0 is 0/1.
Zero == [num |-> 0, den |-> 1]

\* Mutant: the division is not guarded.
PercentageUnguarded(makes, shots) == [num |-> makes * 100, den |-> shots]

\* (makes / shots * 100) if shots > 0 else 0
Percentage(makes, shots) ==
    IF shots > 0 THEN [num |-> makes * 100, den |-> shots] ELSE Zero

----------------------------------------------------------------------------
(* get_players: /api/players/<game_id>/<team_id> *)

TeamViewEntry(team_shots) ==
    [player_id |-> 0, name |-> TeamView,
     shots |-> Len(team_shots),
     makes |-> Makes(team_shots),
     percentage |-> Percentage(Makes(team_shots), Len(team_shots))]

\* Mutant: the names are left in the order of the box-score rows.
RosterNamesUnsorted(team_players) ==
    SelectSeq(Unique([i \in 1..Len(team_players) |->
                         team_players[i].athlete_display_name]),
              LAMBDA n : n # NaNStr)

\* sorted(team_players['athlete_display_name'].dropna().unique())
RosterNames(team_players) ==
    SortedStrs({team_players[i].athlete_display_name :
                    i \in 1..Len(team_players)} \ {NaNStr})

\* Mutant: the players are numbered from 0 (enumerate without start).
PlayerEntryFromZero(team_shots, idx, player) ==
    LET player_shot_data == ShotsOf(team_shots, player)
    IN [player_id |-> idx - 1, name |-> player,
        shots |-> Len(player_shot_data),
        makes |-> Makes(player_shot_data),
        percentage |-> Percentage(Makes(player_shot_data),
                                  Len(player_shot_data))]

PlayerEntry(team_shots, idx, player) ==
    LET player_shot_data == ShotsOf(team_shots, player)
    IN [player_id |-> idx, name |-> player,
        shots |-> Len(player_shot_data),
        makes |-> Makes(player_shot_data),
        percentage |-> Percentage(Makes(player_shot_data),
                                  Len(player_shot_data))]

PlayersList(team_shots, team_players) ==
    LET roster == RosterNames(team_players)
    IN <<TeamViewEntry(team_shots)>>
       \o [i \in 1..Len(roster) |-> PlayerEntry(team_shots, i, roster[i])]

get_players(game_id, team_id) ==
    /\ loaded
    /\ resp.op = "none"
    /\ resp' = [op |-> "get_players", game_id |-> game_id,
                team_id |-> team_id, status |-> 200,
                body |-> PlayersList(TeamShots(game_id, team_id),
                                     TeamPlayers(game_id, team_id))]
    /\ UNCHANGED <<pbp_df, box_df, all_teams, loaded, serving, failed,
                 figures, Gcf, threads>>

----------------------------------------------------------------------------
(* create_shot_chart and get_shot_chart:                                   *)
(* /api/shot-chart/<game_id>/<team_id>/<player_name>                       *)

ShotChartWords ==
    <<" ", "S", "h", "o", "t", " ", "C", "h", "a", "r", "t", " ", "-", " ">>

\* The title of the single-game chart.  int(opp_score) raises ValueError
\* when the team's score is present and the opponent's is absent.
ChartTitle(player_name, game_info, team_id) ==
    LET v == Perspective(game_info, team_id)
        head == player_name \o ShotChartWords \o v.location \o <<" ">>
                    \o v.opponent \o <<" ", "(">>
                    \o FormatDate(game_info.game_date) \o <<")">>
    IN IF ~notna(v.team_score) THEN [ok |-> TRUE, title |-> head]
       ELSE IF ~notna(v.opp_score) THEN [ok |-> FALSE, error |-> "ValueError"]
       ELSE [ok |-> TRUE,
             title |-> head \o <<" ", "(">>
                 \o ScoreText(v.team_score, v.opp_score) \o <<")">>]

\* The figure create_shot_chart renders: its title and the two legend
\* labels (made: scoring_play == True, miss: scoring_play == False).
Figure(shots, title) ==
    [title |-> title,
     made |-> Makes(shots),
     miss |-> Len(SelectSeq(shots, LAMBDA r : r.scoring_play = FALSE))]

create_shot_chart(player_shots, player_name, game_info, team_id) ==
    LET t == ChartTitle(player_name, game_info, team_id)
    IN IF t.ok THEN [ok |-> TRUE, image |-> Figure(player_shots, t.title)]
       ELSE t

\* The 'stats' object of both chart endpoints.
ChartStats(shots) ==
    [makes |-> Makes(shots),
     misses |-> Len(shots) - Makes(shots),
     total |-> Len(shots),
     percentage |-> Percentage(Makes(shots), Len(shots))]

NoShotsFound == [error |-> "No shots found"]

\* The shot set a chart request resolves to.
ResolvedShots(game_id, team_id, player_name) ==
    IF player_name = TeamView THEN TeamShots(game_id, team_id)
    ELSE ShotsOf(TeamShots(game_id, team_id), player_name)

\* The (status, error or body) of get_shot_chart, given one outcome of
\* get_team_games.  .iloc[0] on the empty selection raises IndexError
\* before the shot set is looked at.
ShotChartResult(games, game_id, team_id, player_name) ==
    LET rows == SelectSeq(games, LAMBDA g : g.game_id = game_id)
        player_shots == ResolvedShots(game_id, team_id, player_name)
    IN IF rows = <<>> THEN [status |-> 500, error |-> "IndexError"]
       ELSE IF Len(player_shots) = 0
       THEN [status |-> 404, body |-> NoShotsFound]
       ELSE LET chart == create_shot_chart(player_shots, player_name,
                                           rows[1], team_id)
            IN IF ~chart.ok THEN [status |-> 500, error |-> chart.error]
               ELSE [status |-> 200,
                     body |-> [image |-> chart.image,
                               stats |-> ChartStats(player_shots)]]

get_shot_chart(game_id, team_id, player_name) ==
    /\ loaded
    /\ resp.op = "none"
    /\ \E games \in GetTeamGames(team_id) :
          resp' = [op |-> "get_shot_chart", game_id |-> game_id,
                   team_id |-> team_id, player_name |-> player_name,
                   result |-> ShotChartResult(games, game_id, team_id,
                                              player_name)]
    /\ UNCHANGED <<pbp_df, box_df, all_teams, loaded, serving, failed,
                 figures, Gcf, threads>>

----------------------------------------------------------------------------
(* get_player_season_chart:                                                *)
(* /api/player-season-chart/<team_id>/<player_name>                        *)

\* box_df[(athlete_display_name == player_name) & (team_id == team_id)]
PlayerGames(team_id, player_name) ==
    SelectSeq(box_df,
        LAMBDA r : StrEq(r.athlete_display_name, player_name)
                       /\ r.team_id = team_id)

\* player_games['game_id'].unique()
PlayerGameIds(team_id, player_name) ==
    LET pg == PlayerGames(team_id, player_name)
    IN Unique([i \in 1..Len(pg) |-> pg[i].game_id])

\* all_shots: the non-empty per-game shot sets of the player, in game order.
RECURSIVE AllShots(_, _, _)
AllShots(game_ids, team_id, player_name) ==
    IF game_ids = <<>> THEN <<>>
    ELSE LET player_shots ==
                 ShotsOf(TeamShots(Head(game_ids), team_id), player_name)
             rest == AllShots(Tail(game_ids), team_id, player_name)
         IN IF Len(player_shots) > 0 THEN <<player_shots>> \o rest ELSE rest

SeasonWords1 ==
    <<" ", "-", " ", "2", "0", "2", "5", "-", "2", "6", " ",
      "S", "e", "a", "s", "o", "n", " ",
      "S", "h", "o", "t", " ", "C", "h", "a", "r", "t", " ", "(">>
SeasonWords2 == <<" ", "g", "a", "m", "e", "s", ")">>

SeasonTitle(player_name, n_games) ==
    player_name \o SeasonWords1 \o Digits(n_games) \o SeasonWords2

\* Mutant: a game's shots are those of the whole team.
SeasonChartResultTeamShots(team_id, player_name) ==
    LET ids == PlayerGameIds(team_id, player_name)
        combined_shots ==
            Concat([i \in 1..Len(ids) |-> TeamShots(ids[i], team_id)])
    IN IF Len(combined_shots) = 0 THEN [status |-> 404, body |-> NoShotsFound]
       ELSE [status |-> 200,
             body |-> [image |-> Figure(combined_shots,
                                    SeasonTitle(player_name, Len(ids))),
                       stats |-> [g \in {"games"} |-> Len(ids)]
                                     @@ ChartStats(combined_shots)]]

\* Mutant: the test for an empty season is left out.
SeasonChartResultUnchecked(team_id, player_name) ==
    LET ids == PlayerGameIds(team_id, player_name)
        combined_shots == Concat(AllShots(ids, team_id, player_name))
    IN [status |-> 200,
        body |-> [image |-> Figure(combined_shots,
                               SeasonTitle(player_name, Len(ids))),
                  stats |-> [g \in {"games"} |-> Len(ids)]
                                @@ ChartStats(combined_shots)]]

\* The (status, body) of get_player_season_chart.  The short_name column
\* the handler adds to combined_shots is read by nothing and is left out.
SeasonChartResult(team_id, player_name) ==
    LET ids == PlayerGameIds(team_id, player_name)
        all_shots == AllShots(ids, team_id, player_name)
        combined_shots == Concat(all_shots)
    IN IF Len(all_shots) = 0 THEN [status |-> 404, body |-> NoShotsFound]
       ELSE [status |-> 200,
             body |-> [image |-> Figure(combined_shots,
                                    SeasonTitle(player_name, Len(ids))),
                       stats |-> [g \in {"games"} |-> Len(ids)]
                                     @@ ChartStats(combined_shots)]]

get_player_season_chart(team_id, player_name) ==
    /\ loaded
    /\ resp.op = "none"
    /\ resp' = [op |-> "get_player_season_chart", team_id |-> team_id,
                player_name |-> player_name,
                result |-> SeasonChartResult(team_id, player_name)]
    /\ UNCHANGED <<pbp_df, box_df, all_teams, loaded, serving, failed,
                 figures, Gcf, threads>>

----------------------------------------------------------------------------
(* The chart handlers step by step: pyplot keeps one process-wide registry  *)
(* of figures and acts on its current (last) figure                        *)

\* A figure as pyplot creates it when there is none: no court, no markers.
NoArtist == -1
BlankFigure ==
    [court |-> FALSE, made |-> NoArtist, miss |-> NoArtist,
     legend |-> <<>>, title |-> <<>>]

\* plt.gcf() / plt.gca(): the current figure, created blank and registered
\* when the registry is empty.  The value is the figures and the registry
\* after the call.
EnsureCurrent ==
    IF Gcf = <<>>
    THEN [figures |-> Append(figures, BlankFigure),
          Gcf |-> <<Len(figures) + 1>>]
    ELSE [figures |-> figures, Gcf |-> Gcf]

\* The handler of get_shot_chart up to the call of court.draw.
begin_shot_chart(t, game_id, team_id, player_name) ==
    /\ loaded
    /\ threads[t].pc = "idle"
    /\ \E games \in GetTeamGames(team_id) :
          LET rows == SelectSeq(games, LAMBDA g : g.game_id = game_id)
              player_shots == ResolvedShots(game_id, team_id, player_name)
              req == [op |-> "get_shot_chart", game_id |-> game_id,
                      team_id |-> team_id, player_name |-> player_name]
          IN threads' = [threads EXCEPT ![t] =
                 IF rows = <<>>
                 THEN req @@ [pc |-> "done",
                              result |-> [status |-> 500,
                                          error |-> "IndexError"]]
                 ELSE IF Len(player_shots) = 0
                 THEN req @@ [pc |-> "done",
                              result |-> [status |-> 404,
                                          body |-> NoShotsFound]]
                 ELSE req @@ [pc |-> "draw", shots |-> player_shots,
                              title |-> ChartTitle(player_name, rows[1],
                                                   team_id)]]
    /\ UNCHANGED <<pbp_df, box_df, all_teams, loaded, serving, failed,
                   figures, Gcf, resp>>

\* The handler of get_player_season_chart up to the call of court.draw.
begin_season_chart(t, team_id, player_name) ==
    /\ loaded
    /\ threads[t].pc = "idle"
    /\ LET ids == PlayerGameIds(team_id, player_name)
           all_shots == AllShots(ids, team_id, player_name)
           req == [op |-> "get_player_season_chart", team_id |-> team_id,
                   player_name |-> player_name]
       IN threads' = [threads EXCEPT ![t] =
              IF Len(all_shots) = 0
              THEN req @@ [pc |-> "done",
                           result |-> [status |-> 404,
                                       body |-> NoShotsFound]]
              ELSE req @@ [pc |-> "draw", shots |-> Concat(all_shots),
                           title |-> [ok |-> TRUE,
                                      title |-> SeasonTitle(player_name,
                                                            Len(ids))]]]
    /\ UNCHANGED <<pbp_df, box_df, all_teams, loaded, serving, failed,
                   figures, Gcf, resp>>

\* fig, ax = court.draw(orientation="h"): a new figure with the court, made
\* through pyplot, which registers it and makes it the current figure.
court_draw(t) ==
    /\ threads[t].pc = "draw"
    /\ figures' = Append(figures, [BlankFigure EXCEPT !.court = TRUE])
    /\ Gcf' = Append(Gcf, Len(figures) + 1)
    /\ threads' = [threads EXCEPT ![t] =
           [ax |-> Len(figures) + 1] @@ [@ EXCEPT !.pc = "scatter"]]
    /\ UNCHANGED <<pbp_df, box_df, all_teams, loaded, serving, failed, resp>>

\* The two ax.scatter calls, on the handler's own axes, and the title text;
\* in create_shot_chart the title may raise (ChartTitle), which ends the
\* handler with the figure left open.
ax_scatter(t) ==
    /\ threads[t].pc = "scatter"
    /\ LET me == threads[t]
           miss == Len(SelectSeq(me.shots,
                                 LAMBDA r : r.scoring_play = FALSE))
       IN /\ figures' = [figures EXCEPT ![me.ax] =
                 [@ EXCEPT !.made = Makes(me.shots), !.miss = miss]]
          /\ threads' = [threads EXCEPT ![t] =
                 IF me.title.ok THEN [@ EXCEPT !.pc = "legend"]
                 ELSE [result |-> [status |-> 500, error |-> me.title.error]]
                          @@ [@ EXCEPT !.pc = "done"]]
    /\ UNCHANGED <<pbp_df, box_df, all_teams, loaded, serving, failed, Gcf,
                   resp>>

\* plt.legend(...): a legend of the labelled artists of the current axes.
plt_legend(t) ==
    /\ threads[t].pc = "legend"
    /\ LET now == EnsureCurrent
           cur == now.Gcf[Len(now.Gcf)]
           axes == now.figures[cur]
       IN /\ figures' = [now.figures EXCEPT ![cur] =
                 [axes EXCEPT !.legend = <<axes.made, axes.miss>>]]
          /\ Gcf' = now.Gcf
    /\ threads' = [threads EXCEPT ![t].pc = "title"]
    /\ UNCHANGED <<pbp_df, box_df, all_teams, loaded, serving, failed, resp>>

\* plt.title(title, ...): the title of the current axes.  (plt.tight_layout,
\* which follows, changes no content.)
plt_title(t) ==
    /\ threads[t].pc = "title"
    /\ LET now == EnsureCurrent
           cur == now.Gcf[Len(now.Gcf)]
       IN /\ figures' = [now.figures EXCEPT ![cur] =
                 [@ EXCEPT !.title = threads[t].title.title]]
          /\ Gcf' = now.Gcf
    /\ threads' = [threads EXCEPT ![t].pc = "savefig"]
    /\ UNCHANGED <<pbp_df, box_df, all_teams, loaded, serving, failed, resp>>

\* plt.savefig(buf, ...) and the base64 encoding: the picture of the current
\* figure.
plt_savefig(t) ==
    /\ threads[t].pc = "savefig"
    /\ LET now == EnsureCurrent
           cur == now.Gcf[Len(now.Gcf)]
       IN /\ figures' = now.figures
          /\ Gcf' = now.Gcf
          /\ threads' = [threads EXCEPT ![t] =
                 [img_base64 |-> now.figures[cur]]
                     @@ [@ EXCEPT !.pc = "close"]]
    /\ UNCHANGED <<pbp_df, box_df, all_teams, loaded, serving, failed, resp>>

\* plt.close(): the current figure leaves the registry; then the handler
\* returns the image with its stats.
plt_close(t) ==
    /\ threads[t].pc = "close"
    /\ Gcf' = IF Gcf = <<>> THEN <<>> ELSE SubSeq(Gcf, 1, Len(Gcf) - 1)
    /\ LET me == threads[t]
           stats == IF me.op = "get_player_season_chart"
                    THEN [g \in {"games"} |->
                             Len(PlayerGameIds(me.team_id, me.player_name))]
                         @@ ChartStats(me.shots)
                    ELSE ChartStats(me.shots)
       IN threads' = [threads EXCEPT ![t] =
              [result |-> [status |-> 200,
                           body |-> [image |-> me.img_base64,
                                     stats |-> stats]]]
                  @@ [@ EXCEPT !.pc = "done"]]
    /\ UNCHANGED <<pbp_df, box_df, all_teams, loaded, serving, failed,
                   figures, resp>>

----------------------------------------------------------------------------
(* search_player: /api/search-player/<player_name> *)

\* str.split(): the runs of characters between blanks.  cur is the run
\* being read.
RECURSIVE SplitFrom(_, _)
SplitFrom(s, cur) ==
    IF s = <<>> THEN (IF cur = <<>> THEN <<>> ELSE <<cur>>)
    ELSE IF Head(s) = " "
    THEN (IF cur = <<>> THEN <<>> ELSE <<cur>>) \o SplitFrom(Tail(s), <<>>)
    ELSE SplitFrom(Tail(s), Append(cur, Head(s)))

Split(s) == SplitFrom(s, <<>>)

\* str(value) of a name cell: an absent one reads "nan".
StrOf(name) == IF name = NaNStr THEN <<"n", "a", "n">> ELSE name

\* Mutant: one matching part is enough (any instead of all).
MatchesAny(search_parts, name) ==
    LET player_name_lower == Lower(StrOf(name))
    IN \E k \in 1..Len(search_parts) :
           IsSubstring(search_parts[k], player_name_lower)

\* all(part in player_name_lower for part in search_parts)
Matches(search_parts, name) ==
    LET player_name_lower == Lower(StrOf(name))
    IN \A k \in 1..Len(search_parts) :
           IsSubstring(search_parts[k], player_name_lower)

\* box_df[[name, team name, team id]].drop_duplicates()
Candidates ==
    Unique([i \in 1..Len(box_df) |->
               [athlete_display_name |-> box_df[i].athlete_display_name,
                team_display_name |-> box_df[i].team_display_name,
                team_id |-> box_df[i].team_id]])

MatchingPlayers(query) ==
    LET search_parts == Split(Lower(query))
    IN SelectSeq(Candidates,
           LAMBDA c : Matches(search_parts, c.athlete_display_name))

\* Mutant: a game counts whether or not the player has a shot in it.
SearchTotalsAllGames(game_ids, team_id, player_name) ==
    LET shots == Concat([k \in 1..Len(game_ids) |->
                     ShotsOf(TeamShots(game_ids[k], team_id), player_name)])
    IN [total_games |-> Len(game_ids), total_shots |-> Len(shots),
        total_makes |-> Makes(shots)]

\* games_with_shots, total_shots, total_makes after the loop over the games.
RECURSIVE SearchTotals(_, _, _)
SearchTotals(game_ids, team_id, player_name) ==
    IF game_ids = <<>>
    THEN [total_games |-> 0, total_shots |-> 0, total_makes |-> 0]
    ELSE LET player_shots ==
                 ShotsOf(TeamShots(Head(game_ids), team_id), player_name)
             rest == SearchTotals(Tail(game_ids), team_id, player_name)
         IN IF Len(player_shots) > 0
            THEN [total_games |-> rest.total_games + 1,
                  total_shots |-> rest.total_shots + Len(player_shots),
                  total_makes |-> rest.total_makes + Makes(player_shots)]
            ELSE rest

Unknown == <<"U", "n", "k", "n", "o", "w", "n">>

RECURSIVE SearchResults(_)
SearchResults(matching_players) ==
    IF matching_players = <<>> THEN <<>>
    ELSE LET player == Head(matching_players)
             totals == SearchTotals(
                 PlayerGameIds(player.team_id, player.athlete_display_name),
                 player.team_id, player.athlete_display_name)
             rest == SearchResults(Tail(matching_players))
         IN IF totals.total_games > 0
            THEN <<[player_name |-> player.athlete_display_name,
                    team_name |-> IF player.team_display_name # NaNStr
                                  THEN player.team_display_name ELSE Unknown,
                    team_id |-> player.team_id,
                    total_games |-> totals.total_games,
                    total_shots |-> totals.total_shots,
                    total_makes |-> totals.total_makes]>> \o rest
            ELSE rest

search_player(player_name) ==
    /\ loaded
    /\ resp.op = "none"
    /\ resp' = [op |-> "search_player", player_name |-> player_name,
                status |-> 200,
                matching_players |-> MatchingPlayers(player_name),
                body |-> SearchResults(MatchingPlayers(player_name))]
    /\ UNCHANGED <<pbp_df, box_df, all_teams, loaded, serving, failed,
                 figures, Gcf, threads>>

----------------------------------------------------------------------------
(* get_player_games: /api/player-games/<team_id>/<player_name> *)

\* The score string of get_player_games: only team_score is tested, and
\* int() of an absent opponent score raises ValueError.
PlayerGamesScoreStr(team_score, opp_score) ==
    IF notna(team_score)
    THEN IF notna(opp_score)
         THEN [ok |-> TRUE, score |-> ScoreText(team_score, opp_score)]
         ELSE [ok |-> FALSE, error |-> "ValueError"]
    ELSE [ok |-> TRUE, score |-> TBD]

\* game_data.iloc[-1]: the last play-by-play row of the game.
LastGameRow(game_id) ==
    LET game_data == SelectSeq(pbp_df, LAMBDA r : r.game_id = game_id)
    IN game_data[Len(game_data)]

\* The entry appended to results for one game with shots of the player.
PlayerGamesEntry(game_id, team_id, player_shots) ==
    LET game_row == LastGameRow(game_id)
        v == Perspective(game_row, team_id)
        s == PlayerGamesScoreStr(v.team_score, v.opp_score)
    IN IF s.ok
       THEN [ok |-> TRUE,
             entry |-> [game_id |-> game_id,
                        date |-> FormatDate(game_row.game_date),
                        opponent |-> v.opponent,
                        location |-> v.location,
                        score |-> s.score,
                        shots |-> Len(player_shots),
                        makes |-> Makes(player_shots)]]
       ELSE s

\* The loop over player_games['game_id'].unique(): results in game order,
\* or the exception that ends the handler.
RECURSIVE PlayerGamesLoop(_, _, _)
PlayerGamesLoop(game_ids, team_id, player_name) ==
    IF game_ids = <<>> THEN [ok |-> TRUE, results |-> <<>>]
    ELSE LET game_id == Head(game_ids)
             player_shots == ShotsOf(TeamShots(game_id, team_id), player_name)
             game_data == SelectSeq(pbp_df, LAMBDA r : r.game_id = game_id)
             rest == PlayerGamesLoop(Tail(game_ids), team_id, player_name)
         IN IF Len(player_shots) = 0 \/ Len(game_data) = 0 THEN rest
            ELSE LET e == PlayerGamesEntry(game_id, team_id, player_shots)
                 IN IF ~e.ok THEN e
                    ELSE IF ~rest.ok THEN rest
                    ELSE [ok |-> TRUE, results |-> <<e.entry>> \o rest.results]

\* sorted(results, key=lambda x: x['date']): a stable sort on the date
\* string (MM/DD/YYYY).
\* Mutant: the results are returned in the order of the loop.
Unsorted(results) == results

RECURSIVE SortedByDateStr(_)
SortedByDateStr(results) ==
    IF results = <<>> THEN <<>>
    ELSE LET init == SortedByDateStr(SubSeq(results, 1, Len(results) - 1))
             x == results[Len(results)]
             n == Cardinality({i \in 1..Len(init) :
                                  ~StrLess(x.date, init[i].date)})
         IN SubSeq(init, 1, n) \o <<x>> \o SubSeq(init, n + 1, Len(init))

\* The (status, body) of get_player_games.
PlayerGamesResult(team_id, player_name) ==
    LET loop == PlayerGamesLoop(PlayerGameIds(team_id, player_name),
                                team_id, player_name)
    IN IF loop.ok
       THEN [status |-> 200, body |-> SortedByDateStr(loop.results)]
       ELSE [status |-> 500, error |-> loop.error]

get_player_games(team_id, player_name) ==
    /\ loaded
    /\ resp.op = "none"
    /\ resp' = [op |-> "get_player_games", team_id |-> team_id,
                player_name |-> player_name,
                result |-> PlayerGamesResult(team_id, player_name)]
    /\ UNCHANGED <<pbp_df, box_df, all_teams, loaded, serving, failed,
                 figures, Gcf, threads>>

----------------------------------------------------------------------------
(* The response leaves the handler: the process is idle again. *)

Respond ==
    /\ resp.op # "none"
    /\ resp' = [op |-> "none"]
    /\ UNCHANGED <<pbp_df, box_df, all_teams, loaded, serving, failed,
                 figures, Gcf, threads>>

----------------------------------------------------------------------------
(* The application object served without the __main__ block *)

\* The module is imported by a WSGI server (or by the flask command) and
\* `app` is served: the __main__ block, and with it load_data, does not run.
wsgi_start ==
    /\ ~serving
    /\ ~loaded
    /\ ~failed
    /\ serving' = TRUE
    /\ UNCHANGED <<pbp_df, box_df, all_teams, loaded, failed, figures, Gcf,
                   threads, resp>>

\* The endpoints that read a table.
TableEndpoints ==
    {"get_teams", "get_games", "get_players", "search_player",
     "get_player_games", "get_player_season_chart", "get_shot_chart"}

\* The exception a handler raises at its first use of a global that is
\* still None: an attribute of None in get_teams, a subscript of None in
\* the others.
ErrorOnNone(endpoint) ==
    IF endpoint = "get_teams" THEN "AttributeError" ELSE "TypeError"

\* A request handled while the globals are None: Flask answers 500.
handle_unloaded(endpoint) ==
    /\ serving
    /\ ~loaded
    /\ resp.op = "none"
    /\ resp' = [op |-> endpoint, status |-> 500,
                error |-> ErrorOnNone(endpoint)]
    /\ UNCHANGED <<pbp_df, box_df, all_teams, loaded, serving, failed,
                 figures, Gcf, threads>>

----------------------------------------------------------------------------
(* Specifications *)

Init ==
    /\ pbp_df = <<>>
    /\ box_df = <<>>
    /\ all_teams = <<>>
    /\ loaded = FALSE
    /\ serving = FALSE
    /\ failed = FALSE
    /\ figures = <<>>
    /\ Gcf = <<>>
    /\ threads = [t \in Threads |-> [pc |-> "idle"]]
    /\ resp = [op |-> "none"]

\* The game listing over play-by-play tables drawn from GamesPool.
LoadGames ==
    /\ ~loaded /\ ~serving /\ ~failed
    /\ \E pbp \in SeqsUpTo(GamesPool, MaxGameRows) : load_data(pbp, <<>>)
    /\ serving' = TRUE

CallGetTeamGames == \E t \in QueryTeams : get_team_games(t)

RequestGames == \E t \in QueryTeams : get_games(t)

NextGames == LoadGames \/ CallGetTeamGames \/ RequestGames \/ Respond

SpecGames == Init /\ [][NextGames]_vars

\* The shot queries over tables drawn from ShotPool and BoxPool.
LoadShots ==
    /\ ~loaded /\ ~serving /\ ~failed
    /\ \E pbp \in SubTables(ShotPool, MaxShotRows),
          box \in SubTables(BoxPool, MaxBoxRows) : load_data(pbp, box)
    /\ serving' = TRUE

CallGetPlayerShots ==
    \E g \in ShotQueryGames, t \in ShotQueryTeams : get_player_shots(g, t)

RequestPlayers ==
    \E g \in ShotQueryGames, t \in ShotQueryTeams : get_players(g, t)

RequestShotChart ==
    \E g \in ShotQueryGames, t \in ShotQueryTeams, p \in QueryPlayers :
        get_shot_chart(g, t, p)

RequestSeasonChart ==
    \E t \in ShotQueryTeams, p \in QueryPlayers : get_player_season_chart(t, p)

NextShots ==
    \/ LoadShots
    \/ CallGetPlayerShots
    \/ RequestPlayers
    \/ RequestShotChart
    \/ RequestSeasonChart
    \/ Respond

SpecShots == Init /\ [][NextShots]_vars

\* The player search over the same tables.
RequestSearch == \E q \in SearchQueries : search_player(q)

NextSearch == LoadShots \/ RequestSearch \/ Respond

SpecSearch == Init /\ [][NextSearch]_vars

\* The per-player game listing over the same tables.
RequestPlayerGames ==
    \E t \in ShotQueryTeams, p \in QueryPlayers : get_player_games(t, p)

\* The same listing, and the game listing, over games of both years.
LoadPlayerGames ==
    /\ ~loaded /\ ~serving /\ ~failed
    /\ \E pbp \in SubTables(PlayerGamesShotPool, MaxShotRows),
          box \in SubTables(PlayerGamesBoxPool, MaxBoxRows) :
            load_data(pbp, box)
    /\ serving' = TRUE

NextPlayerGames ==
    \/ LoadShots
    \/ LoadPlayerGames
    \/ RequestPlayerGames
    \/ RequestGames
    \/ Respond

SpecPlayerGames == Init /\ [][NextPlayerGames]_vars

\* The team directory over play-by-play tables drawn from TeamsPool.
LoadTeams ==
    /\ ~loaded /\ ~serving /\ ~failed
    /\ \E pbp \in SeqsUpTo(TeamsPool, MaxTeamRows) : load_data(pbp, <<>>)
    /\ serving' = TRUE

NextTeams == LoadTeams \/ get_teams \/ Respond

SpecTeams == Init /\ [][NextTeams]_vars

\* Both ways of starting the application, and requests after either.
RequestUnloaded == \E e \in TableEndpoints : handle_unloaded(e)

LoadFails ==
    /\ ~loaded /\ ~serving /\ ~failed
    /\ \E pbp \in SubTables(ShotPool, MaxShotRows),
          box \in SubTables(BoxPool, MaxBoxRows), stage \in LoadStages :
          load_data_fails(pbp, box, stage)

NextStart ==
    \/ LoadShots
    \/ LoadFails
    \/ wsgi_start
    \/ RequestUnloaded
    \/ get_teams
    \/ RequestPlayers
    \/ Respond

SpecStart == Init /\ [][NextStart]_vars

\* Chart requests handled by the worker threads, in any interleaving of
\* their steps.
LoadCharts ==
    /\ ~loaded /\ ~serving /\ ~failed
    /\ \E pbp \in SubTables(ChartShotPool, MaxChartRows),
          box \in SubTables(ChartBoxPool, MaxChartRows) : load_data(pbp, box)
    /\ serving' = TRUE

BeginShotChart ==
    \E t \in Threads, p \in QueryPlayers : begin_shot_chart(t, 1, 1, p)

BeginSeasonChart ==
    \E t \in Threads, p \in QueryPlayers : begin_season_chart(t, 1, p)

NextCharts ==
    \/ LoadCharts
    \/ BeginShotChart
    \/ BeginSeasonChart
    \/ \E t \in Threads : court_draw(t)
    \/ \E t \in Threads : ax_scatter(t)
    \/ \E t \in Threads : plt_legend(t)
    \/ \E t \in Threads : plt_title(t)
    \/ \E t \in Threads : plt_savefig(t)
    \/ \E t \in Threads : plt_close(t)

SpecCharts == Init /\ [][NextCharts]_vars

\* The join of names over identifiers of either dtype.
LoadJoin ==
    /\ ~loaded /\ ~serving /\ ~failed
    /\ \E pbp \in SubTables(JoinShotPool, MaxShotRows),
          box \in SubTables(JoinBoxPool, MaxBoxRows),
          dp \in Dtypes, db \in Dtypes :
            load_data(PbpAs(pbp, dp), BoxAs(box, db))
    /\ serving' = TRUE

NextJoin == LoadJoin \/ get_player_shots(1, 1) \/ get_players(1, 1) \/ Respond

SpecJoin == Init /\ [][NextJoin]_vars

----------------------------------------------------------------------------
(* Claims on the game listing (SpecGames) *)

\* Whether team_id is the home or the away team of some play-by-play row.
TeamInPbp(team_id) ==
    \E r \in Range(pbp_df) : r.home_team_id = team_id \/ r.away_team_id = team_id

\* C1: get_team_games(T) returns its games in non-decreasing order of game
\* date, and every returned game has T as its home or its away team.
C1_SortedAndOwn ==
    resp.op = "get_team_games" =>
        LET gi == resp.game_info
        IN /\ \A i, j \in 1..Len(gi) :
                  i < j => gi[i].game_date <= gi[j].game_date
           /\ \A i \in 1..Len(gi) :
                  gi[i].home_team_id = resp.team_id
                      \/ gi[i].away_team_id = resp.team_id

\* C1 witness: two games of the team come back, the later game identifier
\* first because its date is earlier, while a row of another pairing exists.
C1_Witness ==
    /\ resp.op = "get_team_games"
    /\ Len(resp.game_info) = 2
    /\ resp.game_info[1].game_id > resp.game_info[2].game_id
    /\ resp.game_info[1].game_date < resp.game_info[2].game_date

\* The two final scores of a game row, seen from the requested team.
OwnScore(g, team_id) ==
    IF g.home_team_id = team_id THEN g.home_score ELSE g.away_score
OtherScore(g, team_id) ==
    IF g.home_team_id = team_id THEN g.away_score ELSE g.home_score

\* The claimed shape of a score string for two final scores.
ScoreStringRule(score, own, other) ==
    /\ (score = TBD) <=> (own = NaN \/ other = NaN)
    /\ score # TBD =>
          /\ score[1] \in {"W", "L"}
          /\ (score[1] = "W") <=> (own > other)
          /\ SubSeq(score, 2, Len(score))
                 = <<" ">> \o Digits(own) \o <<"-">> \o Digits(other)

\* C2: in every entry of get_games the score string is "TBD" exactly when one
\* of the two final scores is absent; otherwise it is "W" or "L", "W" exactly
\* when the team's score is strictly greater, then " <team>-<opp>".
C2_ScoreString ==
    resp.op = "get_games" =>
        \A i \in 1..Len(resp.body) :
            ScoreStringRule(resp.body[i].score,
                OwnScore(resp.game_info[i], resp.team_id),
                OtherScore(resp.game_info[i], resp.team_id))

\* C2 witness: one listing holds a win "W 80-71" and a pending game.
C2_Witness ==
    /\ resp.op = "get_games"
    /\ \E i \in 1..Len(resp.body) :
          resp.body[i].score = <<"W", " ", "8", "0", "-", "7", "1">>
    /\ \E i \in 1..Len(resp.body) :
          /\ resp.body[i].score = TBD
          /\ OwnScore(resp.game_info[i], resp.team_id) # NaN

\* C8: for a team identifier that is home or away in no play-by-play row,
\* the game listing answers normally with the empty list.
C8_UnknownTeamEmpty ==
    (resp.op = "get_games" /\ ~TeamInPbp(resp.team_id)) =>
        (resp.status = 200 /\ resp.body = <<>>)

\* C8 witness: a non-empty table, a team that is in none of its rows, and
\* the empty list as the answer.
C8_Witness ==
    /\ resp.op = "get_games"
    /\ Len(pbp_df) = 2
    /\ ~TeamInPbp(resp.team_id)
    /\ resp.status = 200
    /\ resp.body = <<>>

----------------------------------------------------------------------------
(* Claims on the shot queries (SpecShots) *)

\* Whether a label holds "freethrow" at some position, letter case aside.
HasFreeThrow(label) ==
    /\ label # NaNStr
    /\ \E a \in 1..Len(label) :
          /\ a + Len(LowerFreethrow) - 1 <= Len(label)
          /\ \A i \in 1..Len(LowerFreethrow) :
                 LowerChar(label[a + i - 1]) = LowerFreethrow[i]

\* The play-by-play columns of a row of the shot set.
PbpColumns(r) ==
    [col \in DOMAIN r \ {"athlete_id", "athlete_display_name"} |-> r[col]]

\* C3: the rows of the shot set of get_player_shots(game, team) are exactly
\* the play-by-play rows of that game with the team's identifier, with
\* shooting_play true and with a label that does not hold "FreeThrow" in any
\* letter case.
C3_ShotSet ==
    resp.op = "get_player_shots" =>
        {PbpColumns(resp.team_shots[i]) : i \in 1..Len(resp.team_shots)}
            = {r \in Range(pbp_df) :
                  /\ r.game_id = resp.game_id
                  /\ r.team_id = resp.team_id
                  /\ r.shooting_play = TRUE
                  /\ ~HasFreeThrow(r.type_text)}

\* C3 witness: a non-empty shot set from a table that also holds a free
\* throw of the same team and game spelled in lower case.
C3_Witness ==
    /\ resp.op = "get_player_shots"
    /\ Len(resp.team_shots) >= 1
    /\ \E r \in Range(pbp_df) :
          /\ r.game_id = resp.game_id
          /\ r.team_id = resp.team_id
          /\ r.shooting_play = TRUE
          /\ r.type_text = LowerFreethrow
    /\ \E r \in Range(pbp_df) :
          r.game_id # resp.game_id \/ r.team_id # resp.team_id

\* The sum of an integer field over the entries from position `from` on.
RECURSIVE SumFrom(_, _, _)
SumFrom(entries, field, from) ==
    IF from > Len(entries) THEN 0
    ELSE entries[from][field] + SumFrom(entries, field, from + 1)

\* C4: the shot count and the make count of the "Team View" entry of
\* get_players equal the sums over the player entries of the same response.
C4_TeamViewIsSum ==
    resp.op = "get_players" =>
        /\ resp.body[1].shots = SumFrom(resp.body, "shots", 2)
        /\ resp.body[1].makes = SumFrom(resp.body, "makes", 2)

\* C5: wherever a percentage is reported (every entry of get_players, the
\* stats of both charts) no division by zero took place, and the percentage
\* is exactly 0 when the shot count is 0.
C5_ZeroPercentage ==
    /\ resp.op = "get_players" =>
          \A i \in 1..Len(resp.body) :
              /\ resp.body[i].percentage.den # 0
              /\ resp.body[i].shots = 0 => resp.body[i].percentage = Zero
    /\ (/\ resp.op \in {"get_shot_chart", "get_player_season_chart"}
        /\ resp.result.status = 200) =>
          /\ resp.result.body.stats.percentage.den # 0
          /\ resp.result.body.stats.total = 0
                 => resp.result.body.stats.percentage = Zero

\* C5 witness: a listing whose team has shots while a listed player has
\* none and is given 0.
C5_Witness ==
    /\ resp.op = "get_players"
    /\ resp.body[1].shots > 0
    /\ \E i \in 2..Len(resp.body) :
          resp.body[i].shots = 0 /\ resp.body[i].percentage = Zero

\* The player's shot set in one game: get_player_shots filtered to the name.
PlayerShotsIn(game_id, team_id, player_name) ==
    ShotsOf(TeamShots(game_id, team_id), player_name)

\* The games of the player's box-score rows with a non-empty shot set.
QualifyingGames(team_id, player_name) ==
    {g \in {r.game_id : r \in Range(PlayerGames(team_id, player_name))} :
        PlayerShotsIn(g, team_id, player_name) # <<>>}

\* The sum over a set of games of the per-game total, makes or misses.
RECURSIVE SumGames(_, _, _, _)
SumGames(games, team_id, player_name, what) ==
    IF games = {} THEN 0
    ELSE LET g == CHOOSE x \in games : TRUE
             shots == PlayerShotsIn(g, team_id, player_name)
             made == Cardinality({i \in 1..Len(shots) : shots[i].scoring_play})
             n == CASE what = "total" -> Len(shots)
                    [] what = "makes" -> made
                    [] OTHER -> Len(shots) - made
         IN n + SumGames(games \ {g}, team_id, player_name, what)

\* C7: for a (team, player) with at least one qualifying game the season
\* chart is rendered, and its total, makes and misses are the sums of the
\* per-game values over the qualifying games of the player, and of no other
\* game.
C7_SeasonSums ==
    (/\ resp.op = "get_player_season_chart"
     /\ QualifyingGames(resp.team_id, resp.player_name) # {}) =>
        LET q == QualifyingGames(resp.team_id, resp.player_name)
            stats == resp.result.body.stats
        IN /\ resp.result.status = 200
           /\ stats.total = SumGames(q, resp.team_id, resp.player_name, "total")
           /\ stats.makes = SumGames(q, resp.team_id, resp.player_name, "makes")
           /\ stats.misses
                  = SumGames(q, resp.team_id, resp.player_name, "misses")

\* C7 witness: a season of two qualifying games and three shots, one of
\* them missed.
C7_Witness ==
    /\ resp.op = "get_player_season_chart"
    /\ resp.result.status = 200
    /\ Cardinality(QualifyingGames(resp.team_id, resp.player_name)) = 2
    /\ resp.result.body.stats.total = 3
    /\ resp.result.body.stats.misses = 1

\* C9: a single-game chart request whose resolved shot set is empty is
\* answered "not found".
C9_EmptyIsNotFound ==
    (/\ resp.op = "get_shot_chart"
     /\ Len(ResolvedShots(resp.game_id, resp.team_id, resp.player_name)) = 0)
        => resp.result.status = 404

\* The game identifiers of both tables.
AllGameIds ==
    {r.game_id : r \in Range(pbp_df)} \cup {r.game_id : r \in Range(box_df)}

\* C10: when no game has a non-empty shot set for the player, the season
\* chart answers "not found" and nothing else (no image).
C10_SeasonNotFound ==
    (/\ resp.op = "get_player_season_chart"
     /\ \A g \in AllGameIds :
            PlayerShotsIn(g, resp.team_id, resp.player_name) = <<>>)
        => resp.result = [status |-> 404, body |-> NoShotsFound]

\* C10 witness: "not found" for a player who has a box-score row in a game
\* where the team took field goals, none of them the player's.
C10_Witness ==
    /\ resp.op = "get_player_season_chart"
    /\ resp.result.status = 404
    /\ \E r \in Range(PlayerGames(resp.team_id, resp.player_name)) :
          TeamShots(r.game_id, resp.team_id) # <<>>

----------------------------------------------------------------------------
(* Claims on the player search (SpecSearch) *)

\* The lowercased tokens of a query: its maximal runs without a blank.
Tokens(query) ==
    LET lq == Lower(query)
        n == Len(lq)
    IN {SubSeq(lq, ab[1], ab[2]) :
           ab \in {x \in (1..n) \X (1..n) :
                      /\ x[1] <= x[2]
                      /\ \A i \in x[1]..x[2] : lq[i] # " "
                      /\ x[1] = 1 \/ lq[x[1] - 1] = " "
                      /\ x[2] = n \/ lq[x[2] + 1] = " "}}

\* Whether a token occurs in the lowercased name.
HoldsToken(tok, name) ==
    LET ln == Lower(name)
    IN \E a \in 1..(Len(ln) - Len(tok) + 1) :
           SubSeq(ln, a, a + Len(tok) - 1) = tok

\* A sequence in reverse order.
Reverse(seq) == [i \in 1..Len(seq) |-> seq[Len(seq) + 1 - i]]

\* Words joined by single blanks.
RECURSIVE Join(_)
Join(words) ==
    IF words = <<>> THEN <<>>
    ELSE IF Len(words) = 1 THEN words[1]
    ELSE words[1] \o <<" ">> \o Join(Tail(words))

\* The display names of the matched candidates.
MatchedNames == {c.athlete_display_name : c \in Range(resp.matching_players)}

\* C6: search_player matches a named candidate exactly when every lowercased
\* token of the query occurs in the candidate's lowercased name; the order
\* of the tokens does not matter; "cameron boozer" and "boozer cameron"
\* match "Cameron Boozer" and "Cameron T. Boozer" and not "Cam Boozer".
C6_TokenMatch ==
    resp.op = "search_player" =>
        /\ \A c \in Range(Candidates) :
               c.athlete_display_name # NaNStr =>
                   ((c \in Range(resp.matching_players))
                       <=> \A tok \in Tokens(resp.player_name) :
                               HoldsToken(tok, c.athlete_display_name))
        /\ resp.matching_players
               = MatchingPlayers(Join(Reverse(Split(resp.player_name))))
        /\ resp.player_name \in {QueryCameronBoozer, QueryBoozerCameron} =>
               MatchedNames \ {NaNStr}
                   = {c.athlete_display_name : c \in Range(Candidates)}
                         \cap {CameronBoozer, CameronTBoozer}

\* C6 witness: "boozer cameron" against the three spellings.
C6_Witness ==
    /\ resp.op = "search_player"
    /\ resp.player_name = QueryBoozerCameron
    /\ {CameronBoozer, CameronTBoozer} \subseteq MatchedNames
    /\ CamBoozer \in {c.athlete_display_name : c \in Range(Candidates)}
    /\ CamBoozer \notin MatchedNames

----------------------------------------------------------------------------
(* Claims on the per-player game listing (SpecPlayerGames) *)

\* C11: get_player_games returns exactly one entry per game of the player's
\* box-score rows in which the player has a shot, none for any other game,
\* and each entry's shots and makes are the sizes of that game's player shot
\* set and of its scoring plays.
C11_PlayerGamesEntries ==
    resp.op = "get_player_games" =>
        LET q == QualifyingGames(resp.team_id, resp.player_name)
        IN /\ resp.result.status = 200
           /\ Len(resp.result.body) = Cardinality(q)
           /\ {resp.result.body[i].game_id :
                   i \in 1..Len(resp.result.body)} = q
           /\ \A i \in 1..Len(resp.result.body) :
                  LET e == resp.result.body[i]
                  IN /\ e.shots = SumGames({e.game_id}, resp.team_id,
                                           resp.player_name, "total")
                     /\ e.makes = SumGames({e.game_id}, resp.team_id,
                                           resp.player_name, "makes")

\* The same statement for the requests the handler answers: the listing is
\* as claimed whenever no entry raises.
C11_WhenAnswered ==
    (resp.op = "get_player_games" /\ resp.result.status = 200) =>
        LET q == QualifyingGames(resp.team_id, resp.player_name)
        IN /\ Len(resp.result.body) = Cardinality(q)
           /\ {resp.result.body[i].game_id :
                   i \in 1..Len(resp.result.body)} = q
           /\ \A i \in 1..Len(resp.result.body) :
                  LET e == resp.result.body[i]
                  IN /\ e.shots = SumGames({e.game_id}, resp.team_id,
                                           resp.player_name, "total")
                     /\ e.makes = SumGames({e.game_id}, resp.team_id,
                                           resp.player_name, "makes")

\* C12: every entry of get_player_games has the score string "TBD" exactly
\* when one of the two final scores of its game is absent, and the listing
\* is built (no failure) when exactly one of the two is absent.
C12_PlayerGamesScore ==
    resp.op = "get_player_games" =>
        /\ resp.result.status = 200
        /\ \A i \in 1..Len(resp.result.body) :
               LET e == resp.result.body[i]
                   g == LastGameRow(e.game_id)
               IN (e.score = TBD) <=>
                      (OwnScore(g, resp.team_id) = NaN
                           \/ OtherScore(g, resp.team_id) = NaN)

----------------------------------------------------------------------------
(* Claims on the search totals (SpecSearch) *)

\* C13: every search result reports the number of the player's qualifying
\* games (games of the box-score rows with the same name and team id whose
\* player shot set is not empty) and the sums of shots and makes over exactly
\* these games; a matching player is in the results exactly when there is
\* such a game.
C13_SearchTotals ==
    resp.op = "search_player" =>
        /\ \A i \in 1..Len(resp.body) :
               LET e == resp.body[i]
                   q == QualifyingGames(e.team_id, e.player_name)
               IN /\ q # {}
                  /\ e.total_games = Cardinality(q)
                  /\ e.total_shots
                         = SumGames(q, e.team_id, e.player_name, "total")
                  /\ e.total_makes
                         = SumGames(q, e.team_id, e.player_name, "makes")
        /\ \A k \in 1..Len(resp.matching_players) :
               LET c == resp.matching_players[k]
               IN (QualifyingGames(c.team_id, c.athlete_display_name) # {})
                      <=> \E i \in 1..Len(resp.body) :
                              /\ resp.body[i].player_name
                                     = c.athlete_display_name
                              /\ resp.body[i].team_id = c.team_id

\* C13 witness: one result with two games, three shots and two makes, and a
\* matching player left out because no game holds a shot of theirs.
C13_Witness ==
    /\ resp.op = "search_player"
    /\ \E i \in 1..Len(resp.body) :
          /\ resp.body[i].total_games = 2
          /\ resp.body[i].total_shots = 3
          /\ resp.body[i].total_makes = 2
    /\ Len(resp.matching_players) > Len(resp.body)

----------------------------------------------------------------------------
(* Claims on the team directory (SpecTeams) *)

\* C14: the team directory built by load_data holds every team identifier
\* at most once.
C14_TeamIdsUnique ==
    loaded =>
        \A i, j \in 1..Len(all_teams) :
            i # j => all_teams[i].team_id # all_teams[j].team_id

\* The keys of CONFERENCE_MAP among the names of the pools, with their
\* conferences.
ConferenceOfKey ==
    (Duke :> <<"A", "C", "C">>) @@ (Kansas :> <<"B", "i", "g", " ", "1", "2">>)

\* C15: every team of the directory has the conference the lookup table
\* gives for its exact display name, "Other" when the name is no key, never
\* an absent conference; get_teams returns the directory, in non-decreasing
\* order of display name.
C15_ConferenceAndOrder ==
    /\ loaded =>
           \A i \in 1..Len(all_teams) :
               LET t == all_teams[i]
               IN /\ t.conference # NaNStr
                  /\ t.conference =
                         IF t.team_name \in DOMAIN ConferenceOfKey
                         THEN ConferenceOfKey[t.team_name] ELSE Other
    /\ resp.op = "get_teams" =>
           /\ resp.status = 200
           /\ resp.body = all_teams
           /\ \A i, j \in 1..Len(resp.body) :
                  i < j => ~StrLess(resp.body[j].team_name,
                                    resp.body[i].team_name)

\* C15 witness: get_teams lists a spelling of Duke that is no key ("Other"),
\* then Duke (ACC), then Kansas, from a table that named Kansas first.
C15_Witness ==
    /\ resp.op = "get_teams"
    /\ Len(resp.body) = 3
    /\ resp.body[1].team_name = DukeUpper /\ resp.body[1].conference = Other
    /\ resp.body[2].team_name = Duke
    /\ resp.body[2].conference = <<"A", "C", "C">>
    /\ resp.body[3].team_name = Kansas
    /\ pbp_df[1].home_team_name = Kansas

----------------------------------------------------------------------------
(* Claims on the player listing (SpecShots) *)

\* C16: the first entry of every get_players response is "Team View" with
\* identifier 0, no other entry has identifier 0, and the identifiers of the
\* other entries are pairwise distinct.
C16_TeamViewId ==
    resp.op = "get_players" =>
        /\ Len(resp.body) >= 1
        /\ resp.body[1].name = TeamView
        /\ resp.body[1].player_id = 0
        /\ \A i \in 2..Len(resp.body) : resp.body[i].player_id # 0
        /\ \A i, j \in 2..Len(resp.body) :
               i # j => resp.body[i].player_id # resp.body[j].player_id

\* C16 witness: a response with Team View and three players.
C16_Witness ==
    /\ resp.op = "get_players"
    /\ Len(resp.body) = 4
    /\ resp.body[1].player_id = 0

\* The distinct present display names of the box-score rows of a team in a
\* game.
BoxNames(game_id, team_id) ==
    {r.athlete_display_name :
        r \in {x \in Range(box_df) :
                  x.game_id = game_id /\ x.team_id = team_id}} \ {NaNStr}

\* C17: after "Team View", get_players lists exactly the distinct present
\* display names of the team's box-score rows of the game, each once, in
\* ascending order, and a listed player without a shot in the game has
\* shots 0 and makes 0.
C17_RosterEntries ==
    resp.op = "get_players" =>
        LET names == BoxNames(resp.game_id, resp.team_id)
            n == Len(resp.body)
        IN /\ n = 1 + Cardinality(names)
           /\ {resp.body[i].name : i \in 2..n} = names
           /\ \A i, j \in 2..n :
                  i < j => StrLess(resp.body[i].name, resp.body[j].name)
           /\ \A i \in 2..n :
                  (~\E r \in Range(TeamShots(resp.game_id, resp.team_id)) :
                        r.athlete_display_name = resp.body[i].name)
                      => (resp.body[i].shots = 0 /\ resp.body[i].makes = 0)

\* C17 witness: two players listed in an order that is not the order of the
\* box-score rows, one of them without a shot while the team has shots, and
\* a box-score row of the team without a name.
C17_Witness ==
    /\ resp.op = "get_players"
    /\ Len(resp.body) = 3
    /\ resp.body[1].shots > 0
    /\ resp.body[2].name = CamBoozer /\ resp.body[2].shots = 0
    /\ resp.body[3].name = CameronBoozer /\ resp.body[3].shots > 0
    /\ \E r \in Range(box_df) :
          /\ r.game_id = resp.game_id /\ r.team_id = resp.team_id
          /\ r.athlete_display_name = NaNStr

----------------------------------------------------------------------------
(* Claims on the perspective of the game listing (SpecGames) *)

\* C18: in every entry of get_games the location is "vs" and the opponent
\* the away team's name exactly when the requested team is the home team of
\* the game, otherwise "@" and the home team's name; a score string that is
\* not "TBD" shows the requested team's side first, the other side second.
C18_Perspective ==
    resp.op = "get_games" =>
        \A i \in 1..Len(resp.body) :
            LET g == resp.game_info[i]
                e == resp.body[i]
                home == g.home_team_id = resp.team_id
                Sides(first, second) ==
                    SubSeq(e.score, 3, Len(e.score))
                        = Digits(first) \o <<"-">> \o Digits(second)
            IN /\ (e.location = Vs) <=> home
               /\ (e.location = At) <=> ~home
               /\ home => e.opponent = g.away_team_name
               /\ ~home => e.opponent = g.home_team_name
               /\ (home /\ e.score # TBD) => Sides(g.home_score, g.away_score)
               /\ (~home /\ e.score # TBD) => Sides(g.away_score, g.home_score)

\* C18 witness: the away team's listing of a game it lost 71-80 at Duke, and
\* in the same listing a game it played at home.
C18_Witness ==
    /\ resp.op = "get_games"
    /\ \E i \in 1..Len(resp.body) :
          /\ resp.body[i].location = At
          /\ resp.body[i].opponent = Duke
          /\ resp.body[i].score = <<"L", " ", "7", "1", "-", "8", "0">>
    /\ \E i \in 1..Len(resp.body) : resp.body[i].location = Vs

----------------------------------------------------------------------------
(* Claims on start-up and on the base tables *)

\* C19: no request handler runs while the base tables are not loaded,
\* however the application is started.
C19_LoadedBeforeServed == resp.op # "none" => loaded

\* C20: once the tables are loaded, no step (no request to any endpoint)
\* changes the play-by-play table, the box-score table or the team
\* directory.
C20_TablesUnchanged ==
    [][loaded => /\ pbp_df' = pbp_df
                 /\ box_df' = box_df
                 /\ all_teams' = all_teams
                 /\ loaded']_vars

\* C20 witness: get_player_shots has answered with a shot that carries a
\* merged name, from tables of three rows each.
C20_Witness ==
    /\ resp.op = "get_player_shots"
    /\ Len(pbp_df) = 3 /\ Len(box_df) = 3 /\ Len(all_teams) = 2
    /\ \E i \in 1..Len(resp.team_shots) :
          resp.team_shots[i].athlete_display_name # NaNStr

----------------------------------------------------------------------------
(* Claims on concurrent chart requests (SpecCharts) *)

\* The picture a chart request is meant to return: the court, its own
\* markers, the legend of its own markers and its own title.
OwnPicture(me) ==
    LET miss == Len(SelectSeq(me.shots, LAMBDA r : r.scoring_play = FALSE))
    IN [court |-> TRUE, made |-> Makes(me.shots), miss |-> miss,
        legend |-> <<Makes(me.shots), miss>>, title |-> me.title.title]

\* C21: whatever the interleaving of two chart handlers, the image of every
\* answered chart request is the picture of its own request.
C21_OwnImage ==
    \A t \in Threads :
        (threads[t].pc = "done" /\ threads[t].result.status = 200) =>
            threads[t].result.body.image = OwnPicture(threads[t])

----------------------------------------------------------------------------
(* Claims on a failed load (SpecStart) *)

\* C22: once load_data has failed the application is not served and no
\* request is being answered, whatever part of the tables was loaded.
C22_FailedLoadServesNothing ==
    failed =>
        /\ ~serving
        /\ ~loaded
        /\ resp.op = "none"
        /\ \A t \in Threads : threads[t].pc = "idle"

\* C22 witness: the load has failed after the play-by-play table was
\* assigned and before the box-score table was.
C22_Witness ==
    /\ failed
    /\ Len(pbp_df) = 3
    /\ box_df = <<>>
    /\ ~serving

----------------------------------------------------------------------------
(* Claims on the game records (SpecGames) *)

----------------------------------------------------------------------------
(* Claims on the join of names (SpecJoin) *)

\* The number an identifier denotes, whatever its dtype.
NumOf(v) == IF v >= FloatBase THEN v - FloatBase ELSE v

\* C24: in get_player_shots, a shot whose acting-player identifier denotes
\* the same number as the athlete identifier of a box-score row of the game
\* carries that row's display name, whichever of the two is stored as an
\* integer and whichever as a float.
C24_JoinByNumber ==
    resp.op = "get_player_shots" =>
        \A r \in Range(pbp_df), b \in Range(box_df) :
            (/\ r.game_id = resp.game_id /\ b.game_id = resp.game_id
             /\ r.team_id = resp.team_id
             /\ r.athlete_id_1 # NaN
             /\ NumOf(r.athlete_id_1) = NumOf(b.athlete_id))
                => \E i \in 1..Len(resp.team_shots) :
                       /\ PbpColumns(resp.team_shots[i]) = r
                       /\ resp.team_shots[i].athlete_display_name
                              = b.athlete_display_name

\* C24 witness: shots with float identifiers named from a box score with
\* integer identifiers, next to a shot whose player is in no box-score row.
C24_Witness ==
    /\ resp.op = "get_player_shots"
    /\ box_df # <<>>
    /\ \A b \in Range(box_df) : b.athlete_id < FloatBase
    /\ \A r \in Range(pbp_df) : r.athlete_id_1 >= FloatBase
    /\ \E i \in 1..Len(resp.team_shots) :
          /\ resp.team_shots[i].athlete_id_1 = Float64(2)
          /\ resp.team_shots[i].athlete_display_name = CamBoozer
    /\ \E i \in 1..Len(resp.team_shots) :
          /\ resp.team_shots[i].athlete_id_1 = Float64(3)
          /\ resp.team_shots[i].athlete_display_name = NaNStr

----------------------------------------------------------------------------
(* Claims on the order and the ties of the listings (SpecPlayerGames) *)

TieText(s) == <<"L", " ">> \o Digits(s) \o <<"-">> \o Digits(s)

\* C26: in get_games and in get_player_games, an entry of a game whose two
\* final scores are present and equal has the score string "L <s>-<s>",
\* for the home team as for the away team.
C26_TieIsLoss ==
    /\ (resp.op = "get_games" /\ resp.status = 200) =>
           \A i \in 1..Len(resp.body) :
               LET g == resp.game_info[i]
               IN (notna(g.home_score) /\ g.home_score = g.away_score)
                      => resp.body[i].score = TieText(g.home_score)
    /\ (resp.op = "get_player_games" /\ resp.result.status = 200) =>
           \A i \in 1..Len(resp.result.body) :
               LET g == LastGameRow(resp.result.body[i].game_id)
               IN (notna(g.home_score) /\ g.home_score = g.away_score)
                      => resp.result.body[i].score = TieText(g.home_score)

\* C26 witness: the away team's listing of its player's games holds the
\* tied game.
C26_Witness ==
    /\ resp.op = "get_player_games"
    /\ resp.result.status = 200
    /\ resp.team_id = 2
    /\ \E i \in 1..Len(resp.result.body) :
          /\ resp.result.body[i].game_id = 3
          /\ LastGameRow(3).away_team_id = 2
          /\ LastGameRow(3).home_score = 71
          /\ LastGameRow(3).away_score = 71
          /\ resp.result.body[i].score = TieText(71)

----------------------------------------------------------------------------
(* Claims on the season chart and the shot set (SpecShots) *)

\* C27: the game count of a season chart, in its title and in stats.games,
\* is the number of the player's qualifying games (the games that gave at
\* least one shot to the aggregate).
C27_SeasonGameCount ==
    (resp.op = "get_player_season_chart" /\ resp.result.status = 200) =>
        LET n == Cardinality(QualifyingGames(resp.team_id, resp.player_name))
        IN /\ resp.result.body.stats.games = n
           /\ resp.result.body.image.title = SeasonTitle(resp.player_name, n)

\* C28: the shot set of get_player_shots has as many rows as there are
\* play-by-play rows of the game that pass the team / shooting-play /
\* not-free-throw filter: the join of names duplicates no play.
C28_NoDuplicatePlay ==
    resp.op = "get_player_shots" =>
        Len(resp.team_shots)
            = Len(SelectSeq(pbp_df,
                      LAMBDA r : r.game_id = resp.game_id
                                     /\ IsFieldGoal(r, resp.team_id)))

----------------------------------------------------------------------------
(* Claims on the search (SpecSearch) *)

\* The sum of a field over the entries of a listing.
RECURSIVE SumField(_, _)
SumField(entries, field) ==
    IF entries = <<>> THEN 0
    ELSE Head(entries)[field] + SumField(Tail(entries), field)

\* The listing of get_player_games and the season chart agree with one
\* search result.
AgreesWithSearch(e) ==
    LET games == PlayerGamesResult(e.team_id, e.player_name)
        season == SeasonChartResult(e.team_id, e.player_name)
    IN /\ games.status = 200
       /\ Len(games.body) = e.total_games
       /\ SumField(games.body, "shots") = e.total_shots
       /\ SumField(games.body, "makes") = e.total_makes
       /\ season.status = 200
       /\ season.body.stats.total = e.total_shots
       /\ season.body.stats.makes = e.total_makes

\* C29: for every result of search_player, get_player_games for its team
\* and name over the same tables lists exactly total_games entries whose
\* shots and makes sum to total_shots and total_makes, and the season chart
\* reports the same total and makes.
C29_SearchAgrees ==
    resp.op = "search_player" =>
        \A i \in 1..Len(resp.body) : AgreesWithSearch(resp.body[i])

\* The same agreement whenever get_player_games answers at all.
C29_WhenAnswered ==
    resp.op = "search_player" =>
        \A i \in 1..Len(resp.body) :
            LET e == resp.body[i]
            IN PlayerGamesResult(e.team_id, e.player_name).status = 200
                   => AgreesWithSearch(e)

\* C30: a query without a token (blanks only) matches every candidate, and
\* the results are exactly the candidates with at least one game with
\* shots.
C30_BlankMatchesAll ==
    (resp.op = "search_player" /\ Split(Lower(resp.player_name)) = <<>>) =>
        /\ resp.matching_players = Candidates
        /\ \A k \in 1..Len(Candidates) :
               LET c == Candidates[k]
               IN (QualifyingGames(c.team_id, c.athlete_display_name) # {})
                      <=> \E i \in 1..Len(resp.body) :
                              /\ resp.body[i].player_name
                                     = c.athlete_display_name
                              /\ resp.body[i].team_id = c.team_id
        /\ \A i \in 1..Len(resp.body) :
               \E k \in 1..Len(Candidates) :
                   /\ resp.body[i].player_name
                          = Candidates[k].athlete_display_name
                   /\ resp.body[i].team_id = Candidates[k].team_id

\* C30 witness: a query of two blanks answered with two players of
\* different names.
C30_Witness ==
    /\ resp.op = "search_player"
    /\ resp.player_name = QueryBlank
    /\ Len(Candidates) >= 2
    /\ Len(resp.body) = 2
    /\ resp.body[1].player_name # resp.body[2].player_name

====
